---- MODULE Spec2Model ----
(***************************************************************************)
(* ts-can: checkPermissions and canAllow of src/lib/can.ts.                *)
(*                                                                         *)
(* Both functions are pure.  The state is the caller's data (the           *)
(* permissions object, the Rules object of one decision, the TestRules     *)
(* object of one batch decision) and the observable outcome of the last    *)
(* call: its return value or fault, the ability lookups it made and the    *)
(* check predicates it invoked, in order.                                  *)
(*                                                                         *)
(* JavaScript values are modelled by what the code does with them:         *)
(*   - an optional field is <<>> when absent/undefined and <<v>> when set; *)
(*   - Array.prototype.find returns the ELEMENT it found (or undefined),   *)
(*     and the code tests that element for truthiness;                     *)
(*   - obj[key] on an object literal falls back to Object.prototype.       *)
(***************************************************************************)
EXTENDS Naturals, Sequences, FiniteSets

VARIABLES permissions, rules, test, op, result, looked, invoked

vars == <<permissions, rules, test, op, result, looked, invoked>>

----------------------------------------------------------------------------
(* Bounds of the model *)

MaxAbilities == 2
MaxChecks == 2
MaxRules == 2

----------------------------------------------------------------------------
(* Optional fields and JavaScript truthiness *)

None == <<>>
Some(v) == <<v>>
IsSome(o) == Len(o) = 1

\* A string is truthy unless it is empty.
StrTruthy(s) == s # ""

\* Property names every object literal inherits from Object.prototype;
\* "constructor" stands for them (its value is the function Object).
InheritedNames == {"constructor"}

\* Targets: undefined (same as absent), the falsy values 0 and null, and the
\* objects {isAdmin: true} and {isAdmin: false}.
Targets == {"undefined", "0", "null", "admin", "user"}

TargetTruthy(t) == t \in {"admin", "user"}

TargetProvided(t) == t # "undefined"

----------------------------------------------------------------------------
(* The data model *)

OwnModuleNames == {"moduleA"}
ModuleNames == {"moduleA", "nonExistentModule", "undefined", "constructor", ""}
Labels == {"moduleA", "undefined", "constructor", ""}
AbilityNames == {"read", ""}
CheckNames == {"isAdmin", ""}

\* The predicates a module may declare: (target) => target.isAdmin
Predicates == {"isAdmin"}

SeqsUpTo(S, n) == UNION {[1..k -> S] : k \in 0..n}

Abilities == UNION {[D -> BOOLEAN] : D \in SUBSET AbilityNames}

Checks == UNION {[D -> Predicates] : D \in SUBSET CheckNames}

PermissionModule == [abilities : Abilities, checks : Checks]

Permissions == UNION {[D -> PermissionModule] : D \in SUBSET OwnModuleNames}

OptModules == {None} \cup {Some(m) : m \in ModuleNames}

Rules ==
    [module : OptModules,
     abilities : {None} \cup {Some(s) : s \in SeqsUpTo(AbilityNames, MaxAbilities)},
     checks : {None} \cup {Some(s) : s \in SeqsUpTo(CheckNames, MaxChecks)},
     target : Targets]

\* The Rules values of a TestRules object: one ability and one check at most,
\* possibly with a module field of their own.
TestRuleValues ==
    [module : {None, Some("moduleA")},
     abilities : {None} \cup {Some(<<a>>) : a \in AbilityNames},
     checks : {None, Some(<<"isAdmin">>)},
     target : {"undefined", "admin"}]

\* A TestRules object, in the insertion order of its keys (the order of
\* Object.keys for keys that are not array indices).
TestEntries == [key : Labels, rules : TestRuleValues]

EmptyRules == [module |-> None, abilities |-> None, checks |-> None, target |-> "undefined"]

----------------------------------------------------------------------------
(* checkPermissions *)

\* (target) => target.isAdmin : the property of the object, undefined (falsy)
\* on the number 0, a TypeError on null and undefined.
Apply(pred, target) ==
    CASE target = "admin" -> "true"
      [] target = "user" -> "false"
      [] target = "0" -> "false"
      [] OTHER -> "fault"

\* permissions[rules.module]
LookupModule(perms, m) ==
    IF m \in DOMAIN perms
      THEN [kind |-> "module", abilities |-> perms[m].abilities, checks |-> perms[m].checks]
      ELSE IF m \in InheritedNames
        THEN [kind |-> "function"]
        ELSE [kind |-> "undefined"]

\* The callback (ability) => !permModule.abilities[ability]
AbilityCallback(permModule, ability) ==
    IF permModule.kind # "module"
      THEN "fault"
      ELSE IF ability \in DOMAIN permModule.abilities
        THEN (IF permModule.abilities[ability] THEN "false" ELSE "true")
        ELSE (IF ability \in InheritedNames THEN "false" ELSE "true")

\* The callback (check) => !permModule.checks[check](rules.target)
CheckCallback(permModule, check, target) ==
    IF permModule.kind # "module"
      THEN "fault"
      ELSE IF check \in DOMAIN permModule.checks
        THEN LET r == Apply(permModule.checks[check], target)
             IN  CASE r = "true" -> "false"
                   [] r = "false" -> "true"
                   [] OTHER -> "fault"
        ELSE (IF check \in InheritedNames THEN "false" ELSE "fault")

\* Array.prototype.find over the callback's answers: the index of the first
\* element whose callback does not answer false, 0 when there is none.
FindIndex(answers) ==
    IF \E i \in 1..Len(answers) : answers[i] # "false"
      THEN CHOOSE i \in 1..Len(answers) :
             /\ answers[i] # "false"
             /\ \A j \in 1..(i - 1) : answers[j] = "false"
      ELSE 0

\* find over a list: what it yields ("fault", "found" with the element, or
\* "undefined") and the elements the callback was called on.
Find(list, answers) ==
    LET i == FindIndex(answers)
    IN  IF i = 0
          THEN [kind |-> "undefined", element |-> "", visited |-> list]
          ELSE [kind |-> IF answers[i] = "fault" THEN "fault" ELSE "found",
                element |-> list[i],
                visited |-> SubSeq(list, 1, i)]

\* if (find(...)) : the element found is tested for truthiness
FoundTruthy(f) == f.kind = "found" /\ StrTruthy(f.element)

Ret(out, l, i) == [out |-> out, looked |-> l, invoked |-> i]

\* The abilities whose grant flag was read: none when permModule.abilities is
\* undefined (reading a property of undefined is the fault).
Looked(permModule, visited) ==
    IF permModule.kind = "module" THEN visited ELSE <<>>

\* The check predicates that were called: an undeclared check is no function,
\* and calling it is the fault.
Invoked(permModule, visited) ==
    IF permModule.kind # "module"
      THEN <<>>
      ELSE LET Callable(c) == c \in DOMAIN permModule.checks \/ c \in InheritedNames
           IN  SelectSeq(visited, Callable)

\* checkPermissions with the test rules.module === 'undefined' left out.
checkPermissions_StrictUndefined(perms, r) ==
    IF r.module = None
      THEN Ret("true", <<>>, <<>>)
      ELSE
        LET permModule == LookupModule(perms, r.module[1])
            abilities == IF IsSome(r.abilities) THEN r.abilities[1] ELSE <<>>
            fa == Find(abilities,
                       [i \in 1..Len(abilities) |-> AbilityCallback(permModule, abilities[i])])
            checks == IF IsSome(r.checks) /\ TargetTruthy(r.target) THEN r.checks[1] ELSE <<>>
            fc == Find(checks,
                       [i \in 1..Len(checks) |-> CheckCallback(permModule, checks[i], r.target)])
            l == Looked(permModule, fa.visited)
            c == Invoked(permModule, fc.visited)
        IN  IF permModule.kind = "undefined"
              THEN Ret("false", <<>>, <<>>)
              ELSE IF fa.kind = "fault"
                THEN Ret("fault", l, <<>>)
                ELSE IF FoundTruthy(fa)
                  THEN Ret("false", l, <<>>)
                  ELSE IF fc.kind = "fault"
                    THEN Ret("fault", l, c)
                    ELSE IF FoundTruthy(fc)
                      THEN Ret("false", l, c)
                      ELSE Ret("true", l, c)

\* checkPermissions with the checks step guarded by rules.checks alone.
checkPermissions_ChecksWithoutTarget(perms, r) ==
    IF r.module = None \/ r.module = Some("undefined")
      THEN Ret("true", <<>>, <<>>)
      ELSE
        LET permModule == LookupModule(perms, r.module[1])
            abilities == IF IsSome(r.abilities) THEN r.abilities[1] ELSE <<>>
            fa == Find(abilities,
                       [i \in 1..Len(abilities) |-> AbilityCallback(permModule, abilities[i])])
            checks == IF IsSome(r.checks) THEN r.checks[1] ELSE <<>>
            fc == Find(checks,
                       [i \in 1..Len(checks) |-> CheckCallback(permModule, checks[i], r.target)])
            l == Looked(permModule, fa.visited)
            c == Invoked(permModule, fc.visited)
        IN  IF permModule.kind = "undefined"
              THEN Ret("false", <<>>, <<>>)
              ELSE IF fa.kind = "fault"
                THEN Ret("fault", l, <<>>)
                ELSE IF FoundTruthy(fa)
                  THEN Ret("false", l, <<>>)
                  ELSE IF fc.kind = "fault"
                    THEN Ret("fault", l, c)
                    ELSE IF FoundTruthy(fc)
                      THEN Ret("false", l, c)
                      ELSE Ret("true", l, c)

checkPermissions(perms, r) ==
    IF r.module = None \/ r.module = Some("undefined")
      THEN Ret("true", <<>>, <<>>)
      ELSE
        LET permModule == LookupModule(perms, r.module[1])
            abilities == IF IsSome(r.abilities) THEN r.abilities[1] ELSE <<>>
            fa == Find(abilities,
                       [i \in 1..Len(abilities) |-> AbilityCallback(permModule, abilities[i])])
            checks == IF IsSome(r.checks) /\ TargetTruthy(r.target) THEN r.checks[1] ELSE <<>>
            fc == Find(checks,
                       [i \in 1..Len(checks) |-> CheckCallback(permModule, checks[i], r.target)])
            l == Looked(permModule, fa.visited)
            c == Invoked(permModule, fc.visited)
        IN  IF permModule.kind = "undefined"
              THEN Ret("false", <<>>, <<>>)
              ELSE IF fa.kind = "fault"
                THEN Ret("fault", l, <<>>)
                ELSE IF FoundTruthy(fa)
                  THEN Ret("false", l, <<>>)
                  ELSE IF fc.kind = "fault"
                    THEN Ret("fault", l, c)
                    ELSE IF FoundTruthy(fc)
                      THEN Ret("false", l, c)
                      ELSE Ret("true", l, c)

----------------------------------------------------------------------------
(* The specification of single decisions *)

Done == result # "none"

Init ==
    /\ permissions \in Permissions
    /\ rules \in Rules
    /\ test = <<>>
    /\ op = "none"
    /\ result = "none"
    /\ looked = <<>>
    /\ invoked = <<>>

CheckPermissionsCall ==
    /\ ~Done
    /\ LET r == checkPermissions(permissions, rules)
       IN  /\ result' = r.out
           /\ looked' = r.looked
           /\ invoked' = r.invoked
    /\ op' = "checkPermissions"
    /\ UNCHANGED <<permissions, rules, test>>

\* The caller asks the next decision: the same requirements, in another
\* module and about another target.
NewRules ==
    /\ Done
    /\ op = "checkPermissions"
    /\ \E m \in OptModules, t \in Targets :
         rules' = [rules EXCEPT !.module = m, !.target = t]
    /\ op' = "none"
    /\ result' = "none"
    /\ looked' = <<>>
    /\ invoked' = <<>>
    /\ UNCHANGED <<permissions, test>>

Next == CheckPermissionsCall \/ NewRules

Spec == Init /\ [][Next]_vars

----------------------------------------------------------------------------
(* canAllow *)

\* Object.keys(test)
Keys(t) == [i \in 1..Len(t) |-> t[i].key]

\* { ...test[key], module: key }
Effective(t, i) == [t[i].rules EXCEPT !.module = Some(t[i].key)]

RECURSIVE Concat(_, _)
Concat(seqs, n) == IF n = 0 THEN <<>> ELSE Concat(seqs, n - 1) \o seqs[n]

\* The callback (key) => !checkPermissions(permissions, {...test[key], module: key})
KeyCallback(out) ==
    CASE out = "true" -> "false"
      [] out = "false" -> "true"
      [] OTHER -> "fault"

canAllow(perms, t) ==
    LET rs == [i \in 1..Len(t) |-> checkPermissions(perms, Effective(t, i))]
        f == Find(Keys(t), [i \in 1..Len(t) |-> KeyCallback(rs[i].out)])
        n == Len(f.visited)
    IN  Ret(IF f.kind = "fault" THEN "fault"
              ELSE IF FoundTruthy(f) THEN "false" ELSE "true",
            Concat([i \in 1..Len(t) |-> rs[i].looked], n),
            Concat([i \in 1..Len(t) |-> rs[i].invoked], n))

----------------------------------------------------------------------------
(* The specification of batch decisions *)

InitAllow ==
    /\ permissions \in Permissions
    /\ rules = EmptyRules
    /\ test = <<>>
    /\ op = "none"
    /\ result = "none"
    /\ looked = <<>>
    /\ invoked = <<>>

\* The caller adds a labelled rule to the TestRules object.
AddRule ==
    /\ ~Done
    /\ Len(test) < MaxRules
    /\ \E e \in TestEntries :
         /\ \A i \in 1..Len(test) : test[i].key # e.key
         /\ test' = Append(test, e)
    /\ UNCHANGED <<permissions, rules, op, result, looked, invoked>>

CanAllowCall ==
    /\ ~Done
    /\ LET r == canAllow(permissions, test)
       IN  /\ result' = r.out
           /\ looked' = r.looked
           /\ invoked' = r.invoked
    /\ op' = "canAllow"
    /\ UNCHANGED <<permissions, rules, test>>

NewTest ==
    /\ Done
    /\ op = "canAllow"
    /\ test' = <<>>
    /\ op' = "none"
    /\ result' = "none"
    /\ looked' = <<>>
    /\ invoked' = <<>>
    /\ UNCHANGED <<permissions, rules>>

NextAllow == AddRule \/ CanAllowCall \/ NewTest

SpecAllow == InitAllow /\ [][NextAllow]_vars

----------------------------------------------------------------------------
(* Vocabulary of the properties *)

Checked == op = "checkPermissions"

Allowed == op = "canAllow"

\* rules.module names a module the permissions object declares.
ModuleResolved == IsSome(rules.module) /\ rules.module[1] \in DOMAIN permissions

\* m.abilities[a] is true
Granted(m, a) == a \in DOMAIN m.abilities /\ m.abilities[a]

\* m declares the check c and its predicate accepts the target
Passes(m, c, target) == c \in DOMAIN m.checks /\ Apply(m.checks[c], target) = "true"

\* The permissions objects that grant what perms grants and set to true one
\* or more abilities that perms sets to false or omits.
Grants(perms) ==
    {[m \in DOMAIN perms |->
        [perms[m] EXCEPT !.abilities =
            [a \in (DOMAIN perms[m].abilities) \cup g[m] |->
                IF a \in g[m] THEN TRUE ELSE perms[m].abilities[a]]]] :
     g \in [DOMAIN perms -> SUBSET AbilityNames]}

\* The TestRules objects with the entries of t in every insertion order.
Reorderings(t) ==
    {[i \in 1..Len(t) |-> t[f[i]]] :
     f \in {h \in [1..Len(t) -> 1..Len(t)] :
              \A i, j \in 1..Len(t) : h[i] = h[j] => i = j}}

----------------------------------------------------------------------------
(* Properties *)

\* C1: canAllow returns exactly the conjunction, over every label k of the
\* TestRules object, of checkPermissions on rule k with its module set to k.
C1_AllAllowedIsConjunction ==
    Allowed =>
        ((result = "true") <=>
            \A i \in 1..Len(test) :
                checkPermissions(permissions, Effective(test, i)).out = "true")

\* C2: with a resolved module and an abilities list, checkPermissions returns
\* true only if the module grants (sets to true) every listed ability.
C2_EveryAbilityGranted ==
    (Checked /\ ModuleResolved /\ IsSome(rules.abilities) /\ result = "true") =>
        \A i \in 1..Len(rules.abilities[1]) :
            Granted(permissions[rules.module[1]], rules.abilities[1][i])

\* C3: with a resolved module, a checks list and a target that is provided
\* (anything but absent), checkPermissions returns true only if every listed
\* check's predicate returns true on the target.
C3_EveryCheckPasses ==
    (Checked /\ ModuleResolved /\ IsSome(rules.checks)
        /\ TargetProvided(rules.target) /\ result = "true") =>
        \A i \in 1..Len(rules.checks[1]) :
            Passes(permissions[rules.module[1]], rules.checks[1][i], rules.target)

\* C4: a rule whose module is a string that is not a key of permissions is
\* denied: checkPermissions returns false.
C4_UnknownModuleDenied ==
    (Checked /\ IsSome(rules.module) /\ rules.module[1] \notin DOMAIN permissions) =>
        result = "false"

\* C5: a rule whose module is absent or the string "undefined" is allowed
\* whatever permissions and the rest of the rule are, and no ability is
\* looked up and no check predicate is invoked.
C5_NoModuleAllowed ==
    (Checked /\ (rules.module = None \/ rules.module = Some("undefined"))) =>
        (result = "true" /\ looked = <<>> /\ invoked = <<>>)

C5_Witness ==
    /\ Checked
    /\ rules.module = Some("undefined")
    /\ permissions = <<>>
    /\ rules.abilities = Some(<<"read">>)
    /\ rules.checks = Some(<<"isAdmin">>)
    /\ rules.target = "user"
    /\ result = "true"

\* C6: with checks provided and the target absent, checkPermissions gives the
\* outcome it gives for the same rule without its checks field, and invokes
\* no check predicate.
C6_ChecksNeedTarget ==
    (Checked /\ IsSome(rules.checks) /\ rules.target = "undefined") =>
        /\ result = checkPermissions(permissions, [rules EXCEPT !.checks = None]).out
        /\ invoked = <<>>

C6_Witness ==
    /\ Checked
    /\ ModuleResolved
    /\ rules.target = "undefined"
    /\ IsSome(rules.checks)
    /\ \E i \in 1..Len(rules.checks[1]) :
          rules.checks[1][i] \notin DOMAIN permissions[rules.module[1]].checks
    /\ result = "true"

\* C7: with a resolved module, a provided target and a checks list naming a
\* check the module does not declare, checkPermissions never returns true.
C7_UndeclaredCheckNeverPasses ==
    (Checked /\ ModuleResolved /\ TargetProvided(rules.target) /\ IsSome(rules.checks)
        /\ \E i \in 1..Len(rules.checks[1]) :
              rules.checks[1][i] \notin DOMAIN permissions[rules.module[1]].checks) =>
        result # "true"

\* C8: the outcome of canAllow (true, false or fault) is the same for every
\* order of the label/rule pairs.
C8_OrderIrrelevant ==
    Allowed => \A t \in Reorderings(test) : canAllow(permissions, t).out = result

\* C9: checkPermissions stops at the first failing step: when the module
\* lookup yields nothing, or a listed ability is not granted by the resolved
\* module, no check predicate is invoked (and a missing ability gives false);
\* and no predicate is invoked after a check that failed.
C9_StopsAtFirstFailure ==
    /\ (Checked /\ IsSome(rules.module)
            /\ LookupModule(permissions, rules.module[1]).kind = "undefined") =>
           invoked = <<>>
    /\ (Checked /\ ModuleResolved /\ IsSome(rules.abilities)
            /\ \E i \in 1..Len(rules.abilities[1]) :
                  ~Granted(permissions[rules.module[1]], rules.abilities[1][i])) =>
           (invoked = <<>> /\ result = "false")
    /\ (Checked /\ ModuleResolved) =>
           \A i \in 1..Len(invoked) : i < Len(invoked) =>
               Passes(permissions[rules.module[1]], invoked[i], rules.target)

\* C10: granting more never denies: what checkPermissions or canAllow allows
\* under permissions, it allows under every permissions object that only
\* sets more abilities to true.
C10_GrantingMoreNeverDenies ==
    /\ (Checked /\ result = "true") =>
           \A p \in Grants(permissions) : checkPermissions(p, rules).out = "true"
    /\ (Allowed /\ result = "true") =>
           \A p \in Grants(permissions) : canAllow(p, test).out = "true"

====
